---- MODULE Spec2Model ----
(***************************************************************************)
(* A model of the vbo crate: the channel identity types and their string   *)
(* mapping (src/types.rs), the fixed-format rendering of channel values    *)
(* (src/types.rs), and the Writer document with its serializer             *)
(* (src/writer.rs, src/error.rs).                                          *)
(*                                                                         *)
(* Text is modelled as TLA+ strings.  A rendered number is first built as  *)
(* a sequence of one-character strings (so that its length and its         *)
(* characters can be inspected) and then joined into one string.           *)
(* Floating payloads are fixed-point: a sign bit and a magnitude counted   *)
(* in units of the last fractional digit the rendering prints; NaN and     *)
(* infinities are outside the model.                                       *)
(***************************************************************************)
EXTENDS Integers, Sequences, FiniteSets, TLC

VARIABLES
    file_creation_time,  \* Writer.file_creation_time : Option<OffsetDateTime>
    comment,             \* Writer.comment : Option<String>
    channels,            \* Writer.channels : Vec<Channel>
    samples,             \* Writer.samples : Vec<Vec<ChannelValue>>
    pc,                  \* position of the running write_to call, or "idle"/"done"
    i,                   \* index of the channel / sample row a write_to loop is at
    k,                   \* index of the value inside the sample row
    sink,                \* the fragments the sink of the write_to call has accepted
    sink_err,            \* the failure the sink raised in this call, if any
    result,              \* what the most recent call returned
    added,               \* history: the channels of the add_channel calls that returned Ok
    rows_added,          \* history: the rows of the add_samples calls
    comment_calls,       \* history: the text of the most recent set_comment call
    fstage,              \* conversions: "off", "input", "rendered", "parsed"
    fin,                 \* conversions: the value under conversion
    fout,                \* conversions: its rendered characters / string
    fback                \* conversions: the value parsed back from fout

vars == <<file_creation_time, comment, channels, samples, pc, i, k, sink, sink_err,
          result, added, rows_added, comment_calls, fstage, fin, fout, fback>>

doc_vars == <<file_creation_time, comment, channels, samples>>
hist_vars == <<added, rows_added, comment_calls>>
write_vars == <<pc, i, k, sink, sink_err>>
fmt_vars == <<fstage, fin, fout, fback>>

\* Option<T>: None is the empty sequence, Some(x) the one-element sequence.
None == <<>>
Some(x) == <<x>>

(***************************************************************************)
(* Channel identity: ChannelName and ChannelUnit.                          *)
(***************************************************************************)
CN(variant) == [variant |-> variant, text |-> ""]
CN_Custom(s) == [variant |-> "Custom", text |-> s]

NameVariants ==
    {"Satellites", "Time", "Latitude", "Longitude", "Velocity", "Heading",
     "Height", "LongAccel", "LatAccel"}

ChannelName_as_str(n) ==
    CASE n.variant = "Satellites" -> "satellites"
      [] n.variant = "Time"       -> "time"
      [] n.variant = "Latitude"   -> "latitude"
      [] n.variant = "Longitude"  -> "longitude"
      [] n.variant = "Velocity"   -> "velocity"
      [] n.variant = "Heading"    -> "heading"
      [] n.variant = "Height"     -> "height"
      [] n.variant = "LongAccel"  -> "long accel"
      [] n.variant = "LatAccel"   -> "lat accel"
      [] n.variant = "Custom"     -> n.text

\* From<&str> with the two strings that hold a space taken for each other
ChannelName_from_swapped(s) ==
    CASE s = "satellites" -> CN("Satellites")
      [] s = "time"       -> CN("Time")
      [] s = "latitude"   -> CN("Latitude")
      [] s = "longitude"  -> CN("Longitude")
      [] s = "velocity"   -> CN("Velocity")
      [] s = "heading"    -> CN("Heading")
      [] s = "height"     -> CN("Height")
      [] s = "long accel" -> CN("LatAccel")
      [] s = "lat accel"  -> CN("LongAccel")
      [] OTHER            -> CN_Custom(s)

ChannelName_from(s) ==
    CASE s = "satellites" -> CN("Satellites")
      [] s = "time"       -> CN("Time")
      [] s = "latitude"   -> CN("Latitude")
      [] s = "longitude"  -> CN("Longitude")
      [] s = "velocity"   -> CN("Velocity")
      [] s = "heading"    -> CN("Heading")
      [] s = "height"     -> CN("Height")
      [] s = "long accel" -> CN("LongAccel")
      [] s = "lat accel"  -> CN("LatAccel")
      [] OTHER            -> CN_Custom(s)

CU(variant) == [variant |-> variant, text |-> ""]
CU_Custom(s) == [variant |-> "Custom", text |-> s]

UnitVariants == {"Kmh", "G"}

ChannelUnit_as_str(u) ==
    CASE u.variant = "Kmh"    -> "kmh"
      [] u.variant = "G"      -> "g"
      [] u.variant = "Custom" -> u.text

ChannelUnit_from(s) ==
    CASE s = "kmh" -> CU("Kmh")
      [] s = "g"   -> CU("G")
      [] OTHER     -> CU_Custom(s)

\* Channel { name, unit: Option<ChannelUnit> }
Channel_new(name, unit) == [name |-> name, unit |-> unit]

\* Display for Channel, as the pieces it hands to the formatter in order.
Channel_fmt(c) ==
    <<ChannelName_as_str(c.name)>>
        \o (IF c.unit # None THEN <<" ", ChannelUnit_as_str(c.unit[1])>> ELSE <<>>)

(***************************************************************************)
(* Number formatting (core::fmt as used by Display for ChannelValue).      *)
(***************************************************************************)
DigitChars == <<"0", "1", "2", "3", "4", "5", "6", "7", "8", "9">>

RECURSIVE Pow10(_)
Pow10(n) == IF n = 0 THEN 1 ELSE 10 * Pow10(n - 1)

RECURSIVE NatDigits(_)
\* the decimal digits of a natural number, most significant first
NatDigits(n) ==
    IF n < 10 THEN <<DigitChars[n + 1]>>
    ELSE Append(NatDigits(n \div 10), DigitChars[(n % 10) + 1])

RECURSIVE Repeat(_, _)
Repeat(c, n) == IF n <= 0 THEN <<>> ELSE <<c>> \o Repeat(c, n - 1)

\* the digits of n, zero-extended on the left to at least w digits
FixedDigits(n, w) ==
    LET d == NatDigits(n) IN Repeat("0", w - Len(d)) \o d

RECURSIVE Join(_)
Join(cs) == IF cs = <<>> THEN "" ELSE Head(cs) \o Join(Tail(cs))

\* Formatter::pad with an explicit fill and right alignment ({:F>W}): the fill
\* goes in front of the whole text, sign included; W is a minimum width.
PadFillRight(cs, fill, width) == Repeat(fill, width - Len(cs)) \o cs

\* Formatter::pad_formatted_parts under the 0 flag ({:0W}): the sign is written
\* first and the zeros go between the sign and the digits.
PadSignAwareZero(sign, body, width) ==
    sign \o Repeat("0", width - Len(sign) - Len(body)) \o body

\* the sign the float formatter prints: "-" for a negative value (negative zero
\* included), "+" for the others only under the + flag
FloatSign(neg, plus) == IF neg THEN <<"-">> ELSE IF plus THEN <<"+">> ELSE <<>>

\* the digits of a float printed with a fixed precision: integer part, ".",
\* prec fractional digits
FloatDigits(whole, frac, prec) ==
    NatDigits(whole) \o <<".">> \o FixedDigits(frac, prec)

\* the same for a magnitude counted in units of 10^-prec
FloatBody(mag, prec) == FloatDigits(mag \div Pow10(prec), mag % Pow10(prec), prec)

(***************************************************************************)
(* ChannelValue and its Display.  One record shape serves the six kinds:   *)
(*   Satellites(u8)      a = the count                                     *)
(*   Time(Time)          a, b, c, d = hour, minute, second, hundredths     *)
(*   Coordinates(DMS)    a, b = degrees, minutes; c = seconds counted in   *)
(*                       millionths of a minute; bearing = N/S/E/W         *)
(*   Velocity(f64)       neg, a = sign and magnitude in thousandths        *)
(*   Heading(f64)        neg, a = sign and magnitude in hundredths         *)
(*   Height(f64)         neg, a = sign and magnitude in hundredths         *)
(***************************************************************************)
CV(kind, neg, a, b, c, d, bearing) ==
    [kind |-> kind, neg |-> neg, a |-> a, b |-> b, c |-> c, d |-> d, bearing |-> bearing]

CV_Satellites(n) == CV("Satellites", FALSE, n, 0, 0, 0, "")
CV_Time(h, m, s, cs) == CV("Time", FALSE, h, m, s, cs, "")
CV_Coordinates(deg, min, sec, bearing) == CV("Coordinates", FALSE, deg, min, sec, 0, bearing)
CV_Velocity(neg, mag) == CV("Velocity", neg, mag, 0, 0, 0, "")
CV_Heading(neg, mag) == CV("Heading", neg, mag, 0, 0, 0, "")
CV_Height(neg, mag) == CV("Height", neg, mag, 0, 0, 0, "")

\* dms_to_minutes: (deg*60 + min + sec/60) * (+1 | -1), as whole minutes and
\* millionths of a minute (seconds are below 60, so sec/60 is below one minute)
dms_to_minutes(v) ==
    [neg |-> ~(v.bearing = "N" \/ v.bearing = "W"),
     whole |-> v.a * 60 + v.b,
     frac |-> v.c]

\* "{:0>3}" of a u8
Satellites_fmt(v) == PadFillRight(NatDigits(v.a), "0", 3)

\* "[hour padding:zero][minute padding:zero][second padding:zero].[subsecond digits:2]"
Time_fmt(v) ==
    FixedDigits(v.a, 2) \o FixedDigits(v.b, 2) \o FixedDigits(v.c, 2)
        \o <<".">> \o FixedDigits(v.d, 2)

\* "{:0>+013.6}" of dms_to_minutes
Coordinates_fmt(v) ==
    LET m == dms_to_minutes(v)
    IN  PadSignAwareZero(FloatSign(m.neg, TRUE), FloatDigits(m.whole, m.frac, 6), 13)

\* the Velocity arm with a width of 6
Velocity_fmt_width6(v) ==
    PadFillRight(FloatSign(v.neg, FALSE) \o FloatBody(v.a, 3), "0", 6)

\* "{:0>7.3}"
Velocity_fmt(v) ==
    PadFillRight(FloatSign(v.neg, FALSE) \o FloatBody(v.a, 3), "0", 7)

\* "{:0>6.2}"
Heading_fmt(v) ==
    PadFillRight(FloatSign(v.neg, FALSE) \o FloatBody(v.a, 2), "0", 6)

\* "{:0>+08.2}"
Height_fmt(v) ==
    PadSignAwareZero(FloatSign(v.neg, TRUE), FloatBody(v.a, 2), 8)

\* Display for ChannelValue.  time_ok is whether Time::format succeeded (an
\* outcome of the time crate); on its failure the arm returns fmt::Error and
\* nothing has been written.
ChannelValue_fmt(v, time_ok) ==
    CASE v.kind = "Satellites"  -> [ok |-> TRUE, chars |-> Satellites_fmt(v)]
      [] v.kind = "Time"        ->
            IF time_ok THEN [ok |-> TRUE, chars |-> Time_fmt(v)]
            ELSE [ok |-> FALSE, chars |-> <<>>]
      [] v.kind = "Coordinates" -> [ok |-> TRUE, chars |-> Coordinates_fmt(v)]
      [] v.kind = "Velocity"    -> [ok |-> TRUE, chars |-> Velocity_fmt(v)]
      [] v.kind = "Heading"     -> [ok |-> TRUE, chars |-> Heading_fmt(v)]
      [] v.kind = "Height"      -> [ok |-> TRUE, chars |-> Height_fmt(v)]

(***************************************************************************)
(* Error (src/error.rs) and the values a call returns.                     *)
(***************************************************************************)
Ret(tag, name, cause) == [tag |-> tag, name |-> name, cause |-> cause]

NoCall == Ret("NoCall", None, "")        \* nothing has been called yet
Pending == Ret("Pending", None, "")      \* a write_to call is running
Unit == Ret("Unit", None, "")            \* the () of set_* and add_samples
Ok == Ret("Ok", None, "")                \* Ok(())
Err_IOError(e) == Ret("IOError", None, e)
Err_TimeFormatError(e) == Ret("TimeFormatError", None, e)
Err_DuplicateChannel(n) == Ret("DuplicateChannel", Some(n), "")
Panicked == Ret("Panic", None, "")

\* From<std::io::Error> for Error, From<time::error::Format> for Error
Error_from_io(e) == Err_IOError(e)
Error_from_format(e) == Err_TimeFormatError(e)

(***************************************************************************)
(* The inputs the operations are called with.                              *)
(***************************************************************************)
MaxSamples == 2

DateTime(y, mo, d, h, mi, s) ==
    [year |-> y, month |-> mo, day |-> d, hour |-> h, minute |-> mi, second |-> s]

\* the time set_file_creation_time is called with: 1641469669 (tests::write_date_time)
TimeChoices == <<DateTime(2022, 1, 6, 11, 47, 49)>>

\* what OffsetDateTime::now_utc() returns to a write_to call
NowChoices == <<DateTime(2017, 9, 7, 15, 58, 57)>>

CommentChoices == <<"Cool Comment\nWith a newline", "second comment">>

ChannelChoices ==
    <<Channel_new(CN("Satellites"), None),
      Channel_new(CN("Satellites"), Some(CU("Kmh"))),
      Channel_new(CN("Time"), None),
      Channel_new(CN_Custom("time"), Some(CU("G")))>>

RowChoices ==
    <<<<>>,
      <<CV_Satellites(0), CV_Velocity(FALSE, 10000)>>,
      <<CV_Time(17, 5, 38, 19)>>>>

\* the failures a sink can raise
IoErrors == {"BrokenPipe", "WriteZero"}

(***************************************************************************)
(* Writer (src/writer.rs): the document operations.                        *)
(***************************************************************************)
Writer_new ==
    /\ file_creation_time = None
    /\ comment = None
    /\ channels = <<>>
    /\ samples = <<>>

set_file_creation_time(time) ==
    /\ pc = "idle"
    /\ file_creation_time' = Some(time)
    /\ result' = Unit
    /\ UNCHANGED <<comment, channels, samples, hist_vars, write_vars, fmt_vars>>

set_comment(c) ==
    /\ pc = "idle"
    /\ comment' = Some(c)
    /\ comment_calls' = Some(c)
    /\ result' = Unit
    /\ UNCHANGED <<file_creation_time, channels, samples, added, rows_added,
                   write_vars, fmt_vars>>

\* the derived PartialEq of ChannelName: same variant, same payload
ChannelName_eq(a, b) == a = b

\* add_channel without the search for an equal name
add_channel_unchecked(new) ==
    /\ pc = "idle"
    /\ Len(channels) < 4
    /\ channels' = Append(channels, new)
    /\ added' = Append(added, new)
    /\ result' = Ok
    /\ UNCHANGED <<file_creation_time, comment, samples, rows_added, comment_calls,
                   write_vars, fmt_vars>>

\* add_channel that overwrites the last channel before it reports the duplicate
add_channel_partial_insert(new) ==
    /\ pc = "idle"
    /\ IF \E n \in 1..Len(channels) : ChannelName_eq(channels[n].name, new.name)
       THEN /\ result' = Err_DuplicateChannel(new.name)
            /\ channels' = [channels EXCEPT ![Len(channels)] = new]
            /\ UNCHANGED added
       ELSE /\ channels' = Append(channels, new)
            /\ added' = Append(added, new)
            /\ result' = Ok
    /\ UNCHANGED <<file_creation_time, comment, samples, rows_added, comment_calls,
                   write_vars, fmt_vars>>

\* add_channel that inserts at the front of the list
add_channel_push_front(new) ==
    /\ pc = "idle"
    /\ IF \E n \in 1..Len(channels) : ChannelName_eq(channels[n].name, new.name)
       THEN /\ result' = Err_DuplicateChannel(new.name)
            /\ UNCHANGED <<channels, added>>
       ELSE /\ channels' = <<new>> \o channels
            /\ added' = Append(added, new)
            /\ result' = Ok
    /\ UNCHANGED <<file_creation_time, comment, samples, rows_added, comment_calls,
                   write_vars, fmt_vars>>

add_channel(new) ==
    /\ pc = "idle"
    /\ IF \E n \in 1..Len(channels) : ChannelName_eq(channels[n].name, new.name)
       THEN /\ result' = Err_DuplicateChannel(new.name)
            /\ UNCHANGED <<channels, added>>
       ELSE /\ channels' = Append(channels, new)
            /\ added' = Append(added, new)
            /\ result' = Ok
    /\ UNCHANGED <<file_creation_time, comment, samples, rows_added, comment_calls,
                   write_vars, fmt_vars>>

\* add_samples that drops a row whose length is not the channel count
add_samples_checked(line) ==
    /\ pc = "idle"
    /\ Len(samples) < MaxSamples
    /\ IF Len(line) = Len(channels)
       THEN samples' = Append(samples, line)
       ELSE UNCHANGED samples
    /\ rows_added' = Append(rows_added, line)
    /\ result' = Unit
    /\ UNCHANGED <<file_creation_time, comment, channels, added, comment_calls,
                   write_vars, fmt_vars>>

add_samples(line) ==
    /\ pc = "idle"
    /\ Len(samples) < MaxSamples
    /\ samples' = Append(samples, line)
    /\ rows_added' = Append(rows_added, line)
    /\ result' = Unit
    /\ UNCHANGED <<file_creation_time, comment, channels, added, comment_calls,
                   write_vars, fmt_vars>>

(***************************************************************************)
(* Writer::write_to.  Each write!/writeln! of the source is one step: the  *)
(* call hands its pieces to the sink in order, the sink accepts them one   *)
(* by one and may reject any of them, which ends the call (the ? operator).*)
(***************************************************************************)
\* the date and the time of the title line, as the two format descriptions give them
Date_fmt(dt) ==
    Join(FixedDigits(dt.day, 2) \o <<"/">> \o FixedDigits(dt.month, 2) \o <<"/">>
            \o FixedDigits(dt.year, 4))

TimeOfDay_fmt(dt) ==
    Join(FixedDigits(dt.hour, 2) \o <<":">> \o FixedDigits(dt.minute, 2) \o <<":">>
            \o FixedDigits(dt.second, 2))

\* the pieces of each write!/writeln! call
Pieces_title(dt) == <<"File created on ", Date_fmt(dt), " at ", TimeOfDay_fmt(dt), "\n\n">>
Pieces_header == <<"[header]\n">>
Pieces_header_channel(c) == Channel_fmt(c) \o <<"\n">>
Pieces_header_end == <<"\n">>
Pieces_comment(c) == <<"[comments]\n", c, "\n\n">>
Pieces_column_names == <<"[column names]\n">>
Pieces_column_name(c) == <<ChannelName_as_str(c.name), " ">>
Pieces_column_names_end == <<"\n\n">>
Pieces_data == <<"[data]\n">>
Pieces_sample(chars) == <<Join(chars), " ">>
Pieces_row_end == <<"\n">>
Pieces_data_end == <<"\n">>

\* where the loops go next: <<pc, i, k>>
AtHeaderChannel(n) ==
    IF n <= Len(channels) THEN <<"header_channel", n, 0>> ELSE <<"header_end", 0, 0>>

\* write_to without the [comments] section
AfterHeader_without_comment == <<"column_names", 0, 0>>

AfterHeader ==
    IF comment # None THEN <<"comment", 0, 0>> ELSE <<"column_names", 0, 0>>

AtColumnName(n) ==
    IF n <= Len(channels) THEN <<"column_name", n, 0>> ELSE <<"column_names_end", 0, 0>>

AtSample(r, n) ==
    IF r > Len(samples) THEN <<"data_end", 0, 0>>
    ELSE IF n > Len(samples[r]) THEN <<"row_end", r, 0>>
    ELSE <<"sample", r, n>>

Returned(r) ==
    /\ pc' = "done"
    /\ i' = 0
    /\ k' = 0
    /\ result' = r

\* write! without the ? operator: a rejected write is ignored and the pass goes on
Emit_ignoring_errors(pieces, next) ==
    \E n \in 0..Len(pieces) :
        /\ sink' = sink \o SubSeq(pieces, 1, n)
        /\ IF n = Len(pieces)
           THEN sink_err' = sink_err
           ELSE \E e \in IoErrors : sink_err' = Some(e)
        /\ pc' = next[1]
        /\ i' = next[2]
        /\ k' = next[3]
        /\ result' = IF next[1] = "done" THEN Ok ELSE Pending

\* one write!/writeln!(sink, ...)? : the sink accepts the first n pieces; if it
\* rejects one the call returns Error::IOError with the sink's failure.
Emit(pieces, next) ==
    \E n \in 0..Len(pieces) :
        /\ sink' = sink \o SubSeq(pieces, 1, n)
        /\ IF n = Len(pieces)
           THEN /\ sink_err' = None
                /\ pc' = next[1]
                /\ i' = next[2]
                /\ k' = next[3]
                /\ result' = IF next[1] = "done" THEN Ok ELSE Pending
           ELSE \E e \in IoErrors :
                /\ sink_err' = Some(e)
                /\ Returned(Error_from_io(e))

write_title ==
    /\ pc = "idle"
    /\ \E now \in 1..Len(NowChoices), fmt \in {"ok", "date", "time"} :
        LET date_time == IF file_creation_time # None THEN file_creation_time[1]
                         ELSE NowChoices[now]
        IN  IF fmt = "ok"
            THEN Emit(Pieces_title(date_time), <<"header", 0, 0>>)
            ELSE /\ Returned(Error_from_format(fmt))
                 /\ UNCHANGED <<sink, sink_err>>
    /\ UNCHANGED <<doc_vars, hist_vars, fmt_vars>>

write_header ==
    /\ pc = "header"
    /\ Emit(Pieces_header, AtHeaderChannel(1))
    /\ UNCHANGED <<doc_vars, hist_vars, fmt_vars>>

write_header_channel ==
    /\ pc = "header_channel"
    /\ Emit(Pieces_header_channel(channels[i]), AtHeaderChannel(i + 1))
    /\ UNCHANGED <<doc_vars, hist_vars, fmt_vars>>

write_header_end ==
    /\ pc = "header_end"
    /\ Emit(Pieces_header_end, AfterHeader)
    /\ UNCHANGED <<doc_vars, hist_vars, fmt_vars>>

write_comment ==
    /\ pc = "comment"
    /\ Emit(Pieces_comment(comment[1]), <<"column_names", 0, 0>>)
    /\ UNCHANGED <<doc_vars, hist_vars, fmt_vars>>

write_column_names ==
    /\ pc = "column_names"
    /\ Emit(Pieces_column_names, AtColumnName(1))
    /\ UNCHANGED <<doc_vars, hist_vars, fmt_vars>>

write_column_name ==
    /\ pc = "column_name"
    /\ Emit(Pieces_column_name(channels[i]), AtColumnName(i + 1))
    /\ UNCHANGED <<doc_vars, hist_vars, fmt_vars>>

write_column_names_end ==
    /\ pc = "column_names_end"
    /\ Emit(Pieces_column_names_end, <<"data", 0, 0>>)
    /\ UNCHANGED <<doc_vars, hist_vars, fmt_vars>>

write_data ==
    /\ pc = "data"
    /\ Emit(Pieces_data, AtSample(1, 1))
    /\ UNCHANGED <<doc_vars, hist_vars, fmt_vars>>

\* write!(sink, "{} ", sample)?.  When Display returns fmt::Error the sink has
\* raised nothing: io::Write::write_fmt then reports its own "formatter error"
\* as an io::Error (converted to Error::IOError by ?), or panics, depending on
\* the standard library the crate is built with.
write_sample ==
    /\ pc = "sample"
    /\ \E time_ok \in BOOLEAN :
        LET r == ChannelValue_fmt(samples[i][k], time_ok)
        IN  IF r.ok
            THEN Emit(Pieces_sample(r.chars), AtSample(i, k + 1))
            ELSE /\ \E out \in {Error_from_io("formatter error"), Panicked} : Returned(out)
                 /\ UNCHANGED <<sink, sink_err>>
    /\ UNCHANGED <<doc_vars, hist_vars, fmt_vars>>

write_row_end ==
    /\ pc = "row_end"
    /\ Emit(Pieces_row_end, AtSample(i + 1, 1))
    /\ UNCHANGED <<doc_vars, hist_vars, fmt_vars>>

write_data_end ==
    /\ pc = "data_end"
    /\ Emit(Pieces_data_end, <<"done", 0, 0>>)
    /\ UNCHANGED <<doc_vars, hist_vars, fmt_vars>>

\* the caller takes the result; the sink of the call is not looked at again
write_returned ==
    /\ pc = "done"
    /\ pc' = "idle"
    /\ sink' = <<>>
    /\ sink_err' = None
    /\ UNCHANGED <<i, k, result, doc_vars, hist_vars, fmt_vars>>

(***************************************************************************)
(* The specification of the Writer.                                        *)
(***************************************************************************)
Init ==
    /\ Writer_new
    /\ pc = "idle"
    /\ i = 0
    /\ k = 0
    /\ sink = <<>>
    /\ sink_err = None
    /\ result = NoCall
    /\ added = <<>>
    /\ rows_added = <<>>
    /\ comment_calls = None
    /\ fstage = "off"
    /\ fin = None
    /\ fout = None
    /\ fback = None

Next ==
    \/ \E t \in 1..Len(TimeChoices) : set_file_creation_time(TimeChoices[t])
    \/ \E c \in 1..Len(CommentChoices) : set_comment(CommentChoices[c])
    \/ \E c \in 1..Len(ChannelChoices) : add_channel(ChannelChoices[c])
    \/ \E r \in 1..Len(RowChoices) : add_samples(RowChoices[r])
    \/ write_title
    \/ write_header
    \/ write_header_channel
    \/ write_header_end
    \/ write_comment
    \/ write_column_names
    \/ write_column_name
    \/ write_column_names_end
    \/ write_data
    \/ write_sample
    \/ write_row_end
    \/ write_data_end
    \/ write_returned

Spec == Init /\ [][Next]_vars

(***************************************************************************)
(* The specification of the conversions: a value is drawn, rendered, and   *)
(* (for names and units) parsed back.  The Writer stays as constructed.    *)
(***************************************************************************)
CustomNameTexts ==
    {"Hello", "device_update_rate", "lean_angle", "time", "long accel", "g", ""}

CustomUnitTexts == {"ms2", "kmh", "g", "time", ""}

NameInputs == {CN(v) : v \in NameVariants} \cup {CN_Custom(t) : t \in CustomNameTexts}

UnitInputs == {CU(v) : v \in UnitVariants} \cup {CU_Custom(t) : t \in CustomUnitTexts}

\* thousandths of km/h: 0.000, 0.001, 0.999, 1.000, 10.000, 58.493, 300.000,
\* 999.999, 1000.000, 12345.678
VelocityMags == {0, 1, 999, 1000, 10000, 58493, 300000, 999999, 1000000, 12345678}

ValueInputs ==
    {CV_Velocity(n, m) : n \in BOOLEAN, m \in VelocityMags}
        \cup {CV_Satellites(3), CV_Satellites(31), CV_Satellites(137),
              CV_Time(17, 5, 38, 19), CV_Time(17, 23, 17, 59),
              CV_Coordinates(51, 59, 99730, "N"), CV_Coordinates(51, 59, 99730, "S"),
              CV_Coordinates(0, 58, 492700, "W"), CV_Coordinates(0, 58, 492700, "E"),
              CV_Heading(FALSE, 3940), CV_Heading(FALSE, 29300),
              CV_Height(FALSE, 15506), CV_Height(TRUE, 29300)}

FmtInit ==
    /\ Writer_new
    /\ pc = "idle"
    /\ i = 0
    /\ k = 0
    /\ sink = <<>>
    /\ sink_err = None
    /\ result = NoCall
    /\ added = <<>>
    /\ rows_added = <<>>
    /\ comment_calls = None
    /\ fstage = "input"
    /\ \/ \E n \in NameInputs : fin = [type |-> "name", v |-> n]
       \/ \E u \in UnitInputs : fin = [type |-> "unit", v |-> u]
       \/ \E v \in ValueInputs : fin = [type |-> "value", v |-> v]
    /\ fout = None
    /\ fback = None

\* x.as_str() / format!("{}", value)
fmt_render ==
    /\ fstage = "input"
    /\ fstage' = "rendered"
    /\ \/ /\ fin.type = "name"
          /\ fout' = ChannelName_as_str(fin.v)
       \/ /\ fin.type = "unit"
          /\ fout' = ChannelUnit_as_str(fin.v)
       \/ /\ fin.type = "value"
          /\ \E time_ok \in BOOLEAN : fout' = ChannelValue_fmt(fin.v, time_ok)
    /\ UNCHANGED <<fin, fback, doc_vars, hist_vars, write_vars, result>>

\* ChannelName::from(s) / ChannelUnit::from(s)
fmt_parse ==
    /\ fstage = "rendered"
    /\ fstage' = "parsed"
    /\ \/ /\ fin.type = "name"
          /\ fback' = ChannelName_from(fout)
       \/ /\ fin.type = "unit"
          /\ fback' = ChannelUnit_from(fout)
    /\ UNCHANGED <<fin, fout, doc_vars, hist_vars, write_vars, result>>

FmtNext == fmt_render \/ fmt_parse

SpecFmt == FmtInit /\ [][FmtNext]_vars

(***************************************************************************)
(* What a write_to call that meets no failure hands to the sink, for the   *)
(* document as it is and the date and time dt.                             *)
(***************************************************************************)
RECURSIVE Concat(_)
Concat(ss) == IF Len(ss) = 0 THEN <<>> ELSE Head(ss) \o Concat(Tail(ss))

RowPieces(row) ==
    Concat([n \in 1..Len(row) |-> Pieces_sample(ChannelValue_fmt(row[n], TRUE).chars)])

FullOutput(dt) ==
    Pieces_title(dt)
        \o Pieces_header
        \o Concat([n \in 1..Len(channels) |-> Pieces_header_channel(channels[n])])
        \o Pieces_header_end
        \o (IF comment # None THEN Pieces_comment(comment[1]) ELSE <<>>)
        \o Pieces_column_names
        \o Concat([n \in 1..Len(channels) |-> Pieces_column_name(channels[n])])
        \o Pieces_column_names_end
        \o Pieces_data
        \o Concat([r \in 1..Len(samples) |-> RowPieces(samples[r]) \o Pieces_row_end])
        \o Pieces_data_end

\* the dates and times the title line of a call can carry
DateTimes ==
    IF file_creation_time # None THEN {file_creation_time[1]}
    ELSE {NowChoices[t] : t \in 1..Len(NowChoices)}

(***************************************************************************)
(* Reading the sink back: the sections and their lines.                    *)
(***************************************************************************)
Positions(s) == {p \in 1..Len(sink) : sink[p] = s}
Pos(s) == CHOOSE p \in Positions(s) : TRUE
Completed == pc = "done" /\ result = Ok

IsStrictPrefix(s, t) == Len(s) < Len(t) /\ s = SubSeq(t, 1, Len(s))

RECURSIVE Lines(_, _)
\* the lines of a run of pieces: a line is the pieces in front of an end-of-line
\* piece ("\n\n" ends the line and adds an empty one); cur is the line being collected
Lines(ps, cur) ==
    IF Len(ps) = 0 THEN (IF Len(cur) = 0 THEN <<>> ELSE <<cur>>)
    ELSE IF Head(ps) = "\n" THEN <<cur>> \o Lines(Tail(ps), <<>>)
    ELSE IF Head(ps) = "\n\n" THEN <<cur, <<>>>> \o Lines(Tail(ps), <<>>)
    ELSE Lines(Tail(ps), Append(cur, Head(ps)))

\* the pieces between the [header] tag and the next tag
HeaderSection ==
    SubSeq(sink, Pos("[header]\n") + 1,
           (IF Positions("[comments]\n") # {} THEN Pos("[comments]\n")
            ELSE Pos("[column names]\n")) - 1)
ColumnSection == SubSeq(sink, Pos("[column names]\n") + 1, Pos("[data]\n") - 1)
DataSection == SubSeq(sink, Pos("[data]\n") + 1, Len(sink))

\* the lines of a section without the blank line that closes it
Body(section) ==
    LET ls == Lines(section, <<>>) IN SubSeq(ls, 1, Len(ls) - 1)

ClosedByBlankLine(section) ==
    LET ls == Lines(section, <<>>) IN Len(ls) >= 1 /\ ls[Len(ls)] = <<>>

\* the entries of a line whose entries are each followed by one space
Entries(line) == [n \in 1..(Len(line) \div 2) |-> line[2 * n - 1]]
SpaceAfterEach(line) ==
    /\ Len(line) % 2 = 0
    /\ \A n \in 1..(Len(line) \div 2) : line[2 * n] = " "

(***************************************************************************)
(* The claims.                                                             *)
(***************************************************************************)

\* C1: in every reachable document no two channels of the list have equal names
\* (ChannelName equality): for all positions a # b, channels[a].name # channels[b].name.
C1_UniqueNames ==
    \A a, b \in 1..Len(channels) : a # b => channels[a].name # channels[b].name

\* C1 witness: a list of three channels, reached with a rejected add_channel call
C1_Witness ==
    /\ Len(channels) = 3
    /\ result.tag = "DuplicateChannel"
    /\ pc = "idle"

\* C2: an add_channel call with a name already in the list returns
\* DuplicateChannel carrying that name and leaves the channel list, the sample
\* rows, the comment and the creation time as they were; this holds of every
\* such call, so also of a duplicate submitted again and again.
C2_DuplicateRejected ==
    [][\A c \in 1..Len(ChannelChoices) :
          (/\ add_channel(ChannelChoices[c])
           /\ \E n \in 1..Len(channels) : channels[n].name = ChannelChoices[c].name)
          => (/\ result' = Err_DuplicateChannel(ChannelChoices[c].name)
              /\ channels' = channels
              /\ samples' = samples
              /\ comment' = comment
              /\ file_creation_time' = file_creation_time)]_vars

\* C2 witness: a rejected call on a document that has channels, rows, a comment
\* and a creation time, the rejected channel differing from the stored one in its unit
C2_Witness ==
    /\ result = Err_DuplicateChannel(CN("Satellites"))
    /\ channels = <<ChannelChoices[1], ChannelChoices[3]>>
    /\ samples # <<>>
    /\ comment # None
    /\ file_creation_time # None

\* the value a name's text is the canonical string of, if any
Canonical(text) == {v \in NameVariants : ChannelName_as_str(CN(v)) = text}
CanonicalUnit(text) == {v \in UnitVariants : ChannelUnit_as_str(CU(v)) = text}

\* C3 as stated: for every ChannelName and ChannelUnit x, Custom included,
\* from(x.as_str()) = x.
C3_RoundTripAll == fstage = "parsed" => fback = fin.v

\* C3 amended: from(x.as_str()) = x for every enumerated name and unit and for
\* every Custom(text) whose text is not the canonical string of an enumerated
\* variant; a Custom(text) whose text is such a string parses back to that
\* enumerated variant, not to itself.
C3_RoundTrip ==
    fstage = "parsed" =>
        LET x == fin.v
            canon == IF fin.type = "name" THEN Canonical(x.text) ELSE CanonicalUnit(x.text)
        IN  IF x.variant = "Custom" /\ canon # {}
            THEN fback.variant \in canon /\ fback.text = "" /\ fback # x
            ELSE fback = x

\* C3 witness: a Custom name with a text of its own and an enumerated name with
\* a space in its string have both made the round trip
C3_Witness ==
    /\ fstage = "parsed"
    /\ fin.type = "name"
    /\ \/ fin.v = CN_Custom("device_update_rate") /\ fout = "device_update_rate"
       \/ fin.v = CN("LongAccel") /\ fout = "long accel"
    /\ fback = fin.v

\* C4: a write_to call that returns Ok has handed the sink the title line first,
\* then [header], [comments], [column names] and [data] in this order; [header],
\* [column names] and [data] exactly once each; [comments] exactly once if
\* set_comment was called before the write, followed by the text of the most
\* recent set_comment call, and not at all otherwise.
C4_SectionOrder ==
    Completed =>
        /\ SubSeq(sink, 1, Len(Pieces_title(TimeChoices[1]))) \in {Pieces_title(dt) : dt \in DateTimes}
        /\ Cardinality(Positions("[header]\n")) = 1
        /\ Cardinality(Positions("[column names]\n")) = 1
        /\ Cardinality(Positions("[data]\n")) = 1
        /\ Pos("[header]\n") = Len(Pieces_title(TimeChoices[1])) + 1
        /\ Pos("[header]\n") < Pos("[column names]\n")
        /\ Pos("[column names]\n") < Pos("[data]\n")
        /\ IF comment_calls # None
           THEN /\ Cardinality(Positions("[comments]\n")) = 1
                /\ Pos("[header]\n") < Pos("[comments]\n")
                /\ Pos("[comments]\n") < Pos("[column names]\n")
                /\ sink[Pos("[comments]\n") + 1] = comment_calls[1]
                /\ sink[Pos("[comments]\n") + 2] = "\n\n"
                /\ Pos("[column names]\n") = Pos("[comments]\n") + 3
           ELSE Positions("[comments]\n") = {}

\* C4 witness: a completed write of a document with channels, rows and a comment
C4_Witness ==
    /\ Completed
    /\ comment_calls = Some(CommentChoices[2])
    /\ Positions("[comments]\n") # {}
    /\ Len(channels) = 2
    /\ Len(samples) = 2

\* C5: the channel list is the sequence of the channels of the add_channel calls
\* that returned Ok, in the order of the calls, and a write_to call that returns
\* Ok has written one [header] line per channel and one [column names] entry per
\* channel, both in that order.
C5_InsertionOrder ==
    /\ channels = added
    /\ Completed =>
        /\ ClosedByBlankLine(HeaderSection)
        /\ Body(HeaderSection) = [n \in 1..Len(added) |-> Channel_fmt(added[n])]
        /\ ClosedByBlankLine(ColumnSection)
        /\ Len(Body(ColumnSection)) = 1
        /\ SpaceAfterEach(Body(ColumnSection)[1])
        /\ Entries(Body(ColumnSection)[1])
              = [n \in 1..Len(added) |-> ChannelName_as_str(added[n].name)]
        /\ Len(Entries(Body(ColumnSection)[1])) = Len(Body(HeaderSection))

\* C5 witness: three channels added, one call rejected in between, and written
C5_Witness ==
    /\ Completed
    /\ added = <<ChannelChoices[3], ChannelChoices[2], ChannelChoices[4]>>
    /\ Len(Body(HeaderSection)) = 3

\* C6 (state part): the sample list is the sequence of the rows of the
\* add_samples calls in the order of the calls, whatever their lengths and value
\* kinds, and a write_to call that returns Ok has written in [data] one line per
\* row, in that order, each line the row's values in order, each followed by one space.
C6_RowsWritten ==
    /\ samples = rows_added
    /\ Completed =>
        /\ ClosedByBlankLine(DataSection)
        /\ Len(Body(DataSection)) = Len(rows_added)
        /\ \A r \in 1..Len(rows_added) :
              LET line == Body(DataSection)[r]
              IN  /\ SpaceAfterEach(line)
                  /\ Entries(line)
                        = [n \in 1..Len(rows_added[r]) |->
                              Join(ChannelValue_fmt(rows_added[r][n], TRUE).chars)]

\* C6 (step part): an add_samples call appends its row at the end of the sample
\* list and leaves channels, comment and creation time as they were.
C6_AppendOnly ==
    \A r \in 1..Len(RowChoices) :
        add_samples(RowChoices[r]) =>
            /\ samples' = Append(samples, RowChoices[r])
            /\ channels' = channels
            /\ comment' = comment
            /\ file_creation_time' = file_creation_time

\* C6: add_samples never rejects a row: the row is appended whatever its length
\* and value kinds, nothing else of the document changes, and write_to writes
\* one [data] line per row in the order the rows were added.
C6_Samples == []C6_RowsWritten /\ [][C6_AppendOnly]_vars

\* C6 witness: an empty row and a row longer than the channel list, written
C6_Witness ==
    /\ Completed
    /\ rows_added = <<RowChoices[1], RowChoices[2]>>
    /\ Len(channels) = 1
    /\ Body(DataSection) = <<<<>>, <<"000", " ", "010.000", " ">>>>

\* C7 (state part): once the sink has rejected a write the call has returned
\* Error::IOError carrying the sink's failure, and what the sink holds is a
\* proper prefix of what a write of this document that meets no failure hands it.
C7_Aborted ==
    sink_err # None =>
        /\ pc = "done"
        /\ result = Err_IOError(sink_err[1])
        /\ \E dt \in DateTimes : IsStrictPrefix(sink, FullOutput(dt))

\* C7 (step part): after the rejected write the sink receives nothing more, and
\* no step of a write_to call changes the document.
C7_NoFurtherWrite ==
    /\ sink_err # None => (sink' = sink \/ sink' = <<>>)
    /\ (pc # "idle" \/ pc' # "idle") => UNCHANGED doc_vars

\* C7: a write the sink rejects ends write_to at once with Error::IOError
\* carrying that failure; the sink holds a prefix of the full output and the
\* document is unchanged.
C7_SinkFailure == []C7_Aborted /\ [][C7_NoFurtherWrite]_vars

\* C7 witness: the sink rejected a write inside the [data] section
C7_Witness ==
    /\ sink_err = Some("WriteZero")
    /\ pc = "done"
    /\ Positions("[data]\n") # {}
    /\ sink[Len(sink)] = "010.000"

\* C8: a write_to call returns Error::IOError only when the sink rejected a
\* write, and a Time value whose rendering fails makes it return
\* Error::TimeFormatError (it returns, and with no other kind of error).
C8_TimeFormatKind ==
    pc = "done" =>
        /\ result.tag \in {"Ok", "IOError", "TimeFormatError"}
        /\ result.tag = "IOError" => sink_err # None

\* the rendered names of the channel list
RenderedNames == [n \in 1..Len(channels) |-> ChannelName_as_str(channels[n].name)]

\* C10: in every reachable document no two channels render to the same name
\* text, so the [column names] line never holds the same name twice.
C10_UniqueRenderedNames ==
    \A a, b \in 1..Len(channels) : a # b => RenderedNames[a] # RenderedNames[b]

\* reading a rendered velocity: seven characters, a decimal point in the fourth
\* place and digits everywhere else (so no sign character and three fractional
\* digits), which read as the number mag of thousandths
Digits == {DigitChars[d] : d \in 1..Len(DigitChars)}
DigitValue(c) == (CHOOSE d \in 1..Len(DigitChars) : DigitChars[d] = c) - 1

VelocityShape(cs, mag) ==
    /\ Len(cs) = 7
    /\ cs[4] = "."
    /\ \A p \in {1, 2, 3, 5, 6, 7} : cs[p] \in Digits
    /\ "+" \notin {cs[p] : p \in 1..Len(cs)}
    /\ "-" \notin {cs[p] : p \in 1..Len(cs)}
    /\ mag = DigitValue(cs[1]) * 100000 + DigitValue(cs[2]) * 10000
                + DigitValue(cs[3]) * 1000 + DigitValue(cs[5]) * 100
                + DigitValue(cs[6]) * 10 + DigitValue(cs[7])

RenderedVelocity == fstage = "rendered" /\ fin.type = "value" /\ fin.v.kind = "Velocity"

\* C9 as stated: every finite Velocity payload renders as exactly 7 characters,
\* zero-padded on the left, with 3 fractional digits and no sign character.
C9_VelocityAll == RenderedVelocity => VelocityShape(fout.chars, fin.v.a)

\* C9 amended: every Velocity payload v with 0 <= v < 1000 and the sign bit
\* clear (0 to 999999 thousandths) renders as exactly 7 characters, zero-padded
\* on the left, with 3 fractional digits after a single decimal point and no
\* sign character.
C9_Velocity ==
    (RenderedVelocity /\ ~fin.v.neg /\ fin.v.a < 1000000)
        => VelocityShape(fout.chars, fin.v.a)

\* C9 witness: 58.493 rendered as "058.493"
C9_Witness ==
    /\ RenderedVelocity
    /\ fin.v = CV_Velocity(FALSE, 58493)
    /\ Join(fout.chars) = "058.493"

====
